---- MODULE Spec2Model ----
(***************************************************************************)
(* A model of the bamboo-scanner image backend (src/backend/bsc.py): the   *)
(* module-level session state and the functions that read and write it.    *)
(*                                                                         *)
(* Conventions                                                             *)
(*  - A Python value that may be None is held as a sequence: <<>> is None  *)
(*    and <<v>> is the value v.                                            *)
(*  - Real numbers that the code rounds to two decimals are held as        *)
(*    integers counting hundredths (20.0 is 2000).                         *)
(*  - An image is abstracted to the list of contours cv2.findContours      *)
(*    discovers in it, and a contour to its traced points together with    *)
(*    the measurements the OpenCV calls of the code return for it.         *)
(***************************************************************************)
EXTENDS Integers, Sequences, FiniteSets, TLC

(* ------------------------------ bounds --------------------------------- *)

\* largest number of contours findContours discovers in one image
MaxContours == 3

\* largest index offered to set_final_circumferences
MaxIndex == 2

(* ------------------------- generic helpers ----------------------------- *)

None == <<>>

Some(v) == <<v>>

Reverse(s) == [i \in 1..Len(s) |-> s[Len(s) + 1 - i]]

Range(s) == {s[i] : i \in 1..Len(s)}

Min(a, b) == IF a < b THEN a ELSE b

Abs(a) == IF a < 0 THEN -a ELSE a

RECURSIVE SumSeq(_)
SumSeq(s) == IF s = <<>> THEN 0 ELSE s[1] + SumSeq(Tail(s))

\* the windows of s: at most n consecutive elements of s
Windows(s, n) ==
    {SubSeq(s, i, j) : i \in 1..(Len(s) + 1), j \in 0..Len(s)}
        \cap UNION {[1..m -> Range(s)] : m \in 0..n}

(* --------------------- contours and images (inputs) -------------------- *)

\* A contour as the OpenCV calls of process_image see it:
\*   pts            the traced points (the numpy array c)
\*   area           cv2.contourArea(c)
\*   k              len(cv2.approxPolyDP(c, 0.01 * perimeter, True))
\*   x, y, w, h     cv2.boundingRect(c)
\*   hull_area      cv2.contourArea(cv2.convexHull(c))
\*   m00, m10, m01  cv2.moments(c); m00 is the area of the same polygon
\*   box            perspective.order_points(cv2.boxPoints(cv2.minAreaRect(c)))
MkContour(name, pts, area, k, x, y, w, h, hull_area, m10, m01) ==
    [name |-> name, pts |-> pts, area |-> area, k |-> k,
     x |-> x, y |-> y, w |-> w, h |-> h, hull_area |-> hull_area,
     m00 |-> area, m10 |-> m10, m01 |-> m01,
     box |-> << <<x, y>>, <<x + w, y>>, <<x + w, y + h>>, <<x, y + h>> >>]

\* a circular contour around (200, 200), two traced points
cX == MkContour("X", << <<300, 200>>, <<200, 150>> >>,
                30000, 14, 100, 100, 200, 200, 31000, 6015000, 6000000)

\* a circular contour around (600, 200), two traced points
cZ == MkContour("Z", << <<600, 100>>, <<550, 200>> >>,
                30000, 12, 500, 100, 200, 200, 31000, 18000000, 6029999)

\* a circular contour around (400, 400), three traced points, all at
\* pixel distance 100 from the centroid
cY == MkContour("Y", << <<500, 400>>, <<400, 300>>, <<300, 400>> >>,
                31000, 16, 300, 300, 200, 200, 32000, 12400000, 12400000)

\* a circular contour below the noise threshold
cSmall == MkContour("Small", << <<50, 40>> >>,
                    9999, 14, 0, 0, 100, 100, 10000, 499950, 499950)

\* a square reference object: large, but four vertices after approximation
cSquare == MkContour("Square", << <<700, 700>>, <<900, 700>>, <<900, 900>>, <<700, 900>> >>,
                     40000, 4, 700, 700, 200, 200, 40000, 32000000, 32000000)

\* A test object for the filters of process_image: one traced point, the
\* bounding box at the origin, the centroid in the middle of the box.
\* Polygon geometry bounds the measurements: area <= hull_area <= w * h.
Probe(name, area, k, w, h, hull_area) ==
    MkContour(name, << <<w, h \div 2>> >>, area, k, 0, 0, w, h, hull_area,
              area * (w \div 2), area * (h \div 2))

\* the test objects by name: each sits on one side of one threshold
ProbeShape(name) ==
    CASE name = "Arc"    -> Probe(name, 0, 14, 200, 200, 20000)       \* a thin arc, traced forth and back: no area
      [] name = "A10000" -> Probe(name, 10000, 14, 110, 110, 10500)   \* area on the threshold
      [] name = "K10"    -> Probe(name, 30000, 10, 200, 200, 31000)
      [] name = "K11"    -> Probe(name, 30000, 11, 200, 200, 31000)
      [] name = "K19"    -> Probe(name, 30000, 19, 200, 200, 31000)
      [] name = "K20"    -> Probe(name, 30000, 20, 200, 200, 31000)
      [] name = "S90"    -> Probe(name, 27000, 14, 200, 200, 30000)   \* solidity 0.9
      [] name = "S91"    -> Probe(name, 27001, 14, 200, 200, 30000)   \* solidity just above 0.9
      [] name = "R079"   -> Probe(name, 25000, 14, 159, 200, 26000)   \* aspect ratio 0.795
      [] name = "R080"   -> Probe(name, 25000, 14, 160, 200, 26000)   \* aspect ratio 0.8
      [] name = "R120"   -> Probe(name, 30000, 14, 240, 200, 31000)   \* aspect ratio 1.2
      [] name = "R121"   -> Probe(name, 30000, 14, 241, 200, 31000)   \* aspect ratio 1.205
      [] name = "Thin"   -> Probe(name, 10000, 14, 25, 400, 10000)    \* w = 25
      [] name = "Flat"   -> Probe(name, 10000, 14, 400, 25, 10000)    \* h = 25

\* The state names a contour (the numpy array the code holds a reference to)
\* by the name of its object; Shape gives the array and its measurements.
Shape(name) ==
    CASE name = "X" -> cX
      [] name = "Z" -> cZ
      [] name = "Y" -> cY
      [] name = "Small" -> cSmall
      [] name = "Square" -> cSquare
      [] OTHER -> ProbeShape(name)

\* the objects on the table, in the order a scan discovers them
Scene == <<"Small", "X", "Y", "Z", "Square">>

\* what cv2.findContours can return for an image, in discovery order:
\* a photograph shows some neighbouring objects of the scene
ContourLists == Windows(Scene, MaxContours)

\* a path names a readable image file (abstracted to its contours) or not
Paths == {[readable |-> TRUE, cnts |-> s] : s \in ContourLists}
            \cup {[readable |-> FALSE, cnts |-> <<>>]}

\* the test objects on the table, in the order a scan discovers them
ProbeScene == <<"Arc", "A10000", "K10", "K11", "Small", "K19", "K20", "S90", "S91",
                "R080", "R120", "R121", "Square", "R079", "Thin", "Flat">>

\* the readable photographs of neighbouring test objects
ProbePaths == {[readable |-> TRUE, cnts |-> s] : s \in Windows(ProbeScene, MaxContours)}

\* cv2.imread: the decoded image, or None for an unreadable or missing file
cv2_imread(image_path_arg) ==
    IF image_path_arg.readable THEN Some([cnts |-> image_path_arg.cnts]) ELSE None

\* cv2.findContours on the pre-processed image
cv2_findContours(image) == image.cnts

(* ------------------------------- state --------------------------------- *)

VARIABLES
    image_path,               \* __image_path
    original_image,           \* __original_image
    config_image,             \* __config_image
    contour_boxes,            \* __contour_boxes
    original_circumferences,  \* __original_circumferences
    circumferences,           \* __circumferences
    same_list,                \* TRUE iff the two names above are bound to one list object
    pixels_per_metric,        \* __pixels_per_metric
    circumferences_data,      \* __circumferences_data
    output_image,             \* __output_image
    op,                       \* the call made last: <<function name, argument>>
    ret,                      \* how that call ended: [exc, value]
    printed,                  \* TRUE iff that call printed "circumferences order reversed"
    report                    \* what that call wrote to the report file, None if it opened none

bsc_vars == <<image_path, original_image, config_image, contour_boxes,
              original_circumferences, circumferences, same_list, pixels_per_metric,
              circumferences_data, output_image, op, ret, printed, report>>

\* The measure screen (src/gui/bpc/measure.py) and the events and the list it
\* shares with the sensor thread (backend.bpc_threading, backend.bpc).
VARIABLES
    capture_now,              \* threading.Event: a capture is requested
    capture_done,             \* threading.Event: the thread has captured
    calibrate_now,            \* threading.Event: a calibration is requested
    calibration_done,         \* threading.Event: the thread has calibrated
    reading_sensors,          \* threading.Event: the thread is reading the port
    kill_thread,              \* threading.Event: the thread is asked to stop
    no_arduino,               \* threading.Event: the port could not be opened
    disconnected,             \* threading.Event: reading the port failed
    queue,                    \* self.queue, a LifoQueue: the readings put, oldest first
    table_live,               \* self.table_data[self.live_column]
    count_number,             \* self.count_number
    saved_measurement,        \* len(saved_measurement)
    status_var,               \* self.status_var
    buttons,                  \* state of calibrate_button and capture_button
    do_update,                \* self.do_update
    busy_message_set,         \* self.busy_message_set
    pending,                  \* update_live_gui callbacks registered with after() and not yet run
    live_thread,              \* what the thread started last is doing
    event                     \* the handler or thread step that ran last

measure_vars == <<capture_now, capture_done, calibrate_now, calibration_done,
                  reading_sensors, kill_thread, no_arduino, disconnected, queue,
                  table_live, count_number, saved_measurement, status_var, buttons,
                  do_update, busy_message_set, pending, live_thread, event>>

vars == <<bsc_vars, measure_vars>>

\* a call that returns value (a Python return without a value returns None)
Return(value) == [exc |-> "", value |-> value]

\* a call that lets an exception of the named class propagate to its caller
Raise(exc) == [exc |-> exc, value |-> None]

(* --------------------------- process_image ----------------------------- *)

\* the noise threshold on the contour area
MinArea == 10000

\* (variant: ten vertices count as a circle too)
is_circumference_k_ge(c) ==
    /\ c.k >= 10 /\ c.k < 20
    /\ c.w > 25 /\ c.h > 25
    /\ 10 * c.area > 9 * c.hull_area
    /\ 10 * c.w >= 8 * c.h /\ 10 * c.w <= 12 * c.h

\* the shape filter a large contour has to pass to count as a circumference
is_circumference(c) ==
    /\ c.k > 10 /\ c.k < 20
    /\ c.w > 25 /\ c.h > 25                       \* size_ok
    /\ 10 * c.area > 9 * c.hull_area              \* solidity > 0.9
    /\ 10 * c.w >= 8 * c.h /\ 10 * c.w <= 12 * c.h  \* 0.8 <= aspect_ratio <= 1.2

\* the centroid of a contour from its moments, truncated to whole pixels
centroid_of(c) == <<c.m10 \div c.m00, c.m01 \div c.m00>>

RECURSIVE scan_contours_box_late(_, _)
\* (variant: the box is kept only for a contour that passed the shape filter)
scan_contours_box_late(cnts, acc) ==
    IF cnts = <<>> THEN acc
    ELSE LET c == Shape(Head(cnts)) IN
         IF c.area < MinArea THEN scan_contours_box_late(Tail(cnts), acc)
         ELSE IF ~is_circumference(c) THEN scan_contours_box_late(Tail(cnts), acc)
              ELSE IF c.m00 = 0 THEN [acc EXCEPT !.exc = "ZeroDivisionError"]
              ELSE scan_contours_box_late(Tail(cnts),
                       [acc EXCEPT !.boxes = Append(@, c.box),
                                   !.circs = Append(@, <<c.name, centroid_of(c)>>),
                                   !.drawn = Append(@, c.name)])

RECURSIVE scan_contours_unguarded(_, _)
\* (variant: neither the noise threshold nor the solidity test is applied, and
\* a zero area moment gives the centroid (0, 0) instead of an error)
scan_contours_unguarded(cnts, acc) ==
    IF cnts = <<>> THEN acc
    ELSE LET c == Shape(Head(cnts))
             boxed == [acc EXCEPT !.boxes = Append(@, c.box)]
             round_enough == /\ c.k > 10 /\ c.k < 20
                             /\ c.w > 25 /\ c.h > 25
                             /\ 10 * c.w >= 8 * c.h /\ 10 * c.w <= 12 * c.h
             centroid == IF c.m00 = 0 THEN <<0, 0>> ELSE centroid_of(c) IN
         IF ~round_enough THEN scan_contours_unguarded(Tail(cnts), boxed)
         ELSE scan_contours_unguarded(Tail(cnts),
                  [boxed EXCEPT !.circs = Append(@, <<c.name, centroid>>),
                                !.drawn = Append(@, c.name)])

RECURSIVE scan_contours(_, _)
\* The loop over the discovered contours, started with acc holding the
\* cleared lists: the boxes kept, the circumferences registered, the
\* contours drawn on the preview, and the exception that stopped the loop.
scan_contours(cnts, acc) ==
    IF cnts = <<>> THEN acc
    ELSE LET c == Shape(Head(cnts)) IN
         IF c.area < MinArea THEN scan_contours(Tail(cnts), acc)
         ELSE LET boxed == [acc EXCEPT !.boxes = Append(@, c.box)] IN
              IF ~is_circumference(c) THEN scan_contours(Tail(cnts), boxed)
              ELSE IF c.m00 = 0 THEN [boxed EXCEPT !.exc = "ZeroDivisionError"]
              ELSE scan_contours(Tail(cnts),
                       [boxed EXCEPT !.circs = Append(@, <<c.name, centroid_of(c)>>),
                                     !.drawn = Append(@, c.name)])

\* (variant: the list is left as it was)
list_clear_kept(list) == list

\* list.clear(): the list afterwards
list_clear(list) == <<>>

\* (variant: no copy is made, the same list object is handed back)
copy_copy_alias(list) == [value |-> list, fresh |-> FALSE]

\* copy.copy of a list: a new list object holding the same elements
copy_copy(list) == [value |-> list, fresh |-> TRUE]

\* (variant: the snapshot is taken for more than three candidates only)
snapshot_due_wide(circs) == Len(circs) > 3

\* whether the candidates found are kept as the originals
snapshot_due(circs) == Len(circs) > 2

\* (variant: the test for a failed load is missing, the copy of None fails)
no_image_unchecked == Raise("AttributeError")

\* how process_image ends when cv2.imread gave no image
no_image == Return(None)

process_image(image_path_arg) ==
    LET loaded == cv2_imread(image_path_arg) IN
    /\ UNCHANGED measure_vars
    /\ op' = <<"process_image", image_path_arg>>
    /\ printed' = FALSE
    /\ report' = None
    /\ original_image' = loaded
    /\ IF loaded = None
       THEN /\ ret' = no_image
            /\ UNCHANGED <<image_path, config_image, contour_boxes,
                           original_circumferences, circumferences, same_list,
                           pixels_per_metric, circumferences_data, output_image>>
       ELSE LET scan == scan_contours(cv2_findContours(loaded[1]),
                                      [boxes |-> <<>>, circs |-> <<>>, drawn |-> <<>>, exc |-> ""])
                snapshot == copy_copy(scan.circs)
                captured == scan.exc = "" /\ snapshot_due(scan.circs)
            IN  /\ image_path' = Some(image_path_arg)
                /\ config_image' = Some([image |-> loaded[1], drawn |-> scan.drawn,
                                         pil |-> scan.exc = ""])
                /\ contour_boxes' = scan.boxes
                /\ circumferences' = scan.circs
                \* both lists are cleared in place; the candidates are appended to
                \* __circumferences, hence to the other name too if it is the same list
                /\ original_circumferences' =
                       IF captured THEN snapshot.value
                       ELSE IF same_list THEN scan.circs
                       ELSE list_clear(original_circumferences)
                /\ same_list' = IF captured THEN ~snapshot.fresh ELSE same_list
                /\ ret' = IF scan.exc = "" THEN Return(Some(Len(scan.circs)))
                          ELSE Raise(scan.exc)
                /\ UNCHANGED <<pixels_per_metric, circumferences_data, output_image>>

(* ----------------------- selection and ordering ----------------------- *)

RECURSIVE final_circumferences_shifted(_, _, _)
\* (variant: the selection is read as one-based positions)
final_circumferences_shifted(list, selected, i) ==
    IF i >= Len(list) THEN <<>>
    ELSE (IF (i + 1) \in selected THEN <<list[i + 1]>> ELSE <<>>)
             \o final_circumferences_shifted(list, selected, i + 1)

RECURSIVE final_circumferences(_, _, _)
\* the elements of list whose (zero-based) index, from i on, is in selected
final_circumferences(list, selected, i) ==
    IF i >= Len(list) THEN <<>>
    ELSE (IF i \in selected THEN <<list[i + 1]>> ELSE <<>>)
             \o final_circumferences(list, selected, i + 1)

\* The index sets offered as a selection: the indices of the snapshot and one
\* index past its end, up to MaxIndex.
Selections == SUBSET (0..Min(MaxIndex, Len(original_circumferences)))

set_final_circumferences(selected) ==
    /\ UNCHANGED measure_vars
    /\ op' = <<"set_final_circumferences", selected>>
    /\ circumferences' = final_circumferences(original_circumferences, selected, 0)
    /\ same_list' = FALSE      \* the name is bound to the list just built
    /\ ret' = Return(None)
    /\ printed' = FALSE
    /\ report' = None
    /\ UNCHANGED <<image_path, original_image, config_image, contour_boxes,
                   original_circumferences, pixels_per_metric, circumferences_data,
                   output_image>>

\* the values offered to set_pixels_per_metric: pixels per unit, positive
Scales == {5}

set_pixels_per_metric(value) ==
    /\ UNCHANGED measure_vars
    /\ op' = <<"set_pixels_per_metric", value>>
    /\ pixels_per_metric' = Some(value)
    /\ ret' = Return(None)
    /\ printed' = FALSE
    /\ report' = None
    /\ UNCHANGED <<image_path, original_image, config_image, contour_boxes,
                   original_circumferences, circumferences, same_list,
                   circumferences_data, output_image>>

\* the number of traced points of the contour of a circumference tuple
num_points(circumference) == Len(Shape(circumference[1]).pts)

\* (variant: equal point counts are swapped too)
sorted_circumferences_ge(list) ==
    IF Len(list) < 2
    THEN [exc |-> "IndexError", list |-> list, reversed |-> FALSE]
    ELSE IF num_points(list[2]) >= num_points(list[1])
         THEN [exc |-> "", list |-> Reverse(list), reversed |-> TRUE]
         ELSE [exc |-> "", list |-> list, reversed |-> FALSE]

\* The body of sort_circumferences on the list __circumferences is bound to:
\* the exception it raises, the list afterwards, whether it was reversed.
sorted_circumferences(list) ==
    IF Len(list) < 2
    THEN [exc |-> "IndexError", list |-> list, reversed |-> FALSE]
    ELSE IF num_points(list[2]) > num_points(list[1])
         THEN [exc |-> "", list |-> Reverse(list), reversed |-> TRUE]
         ELSE [exc |-> "", list |-> list, reversed |-> FALSE]

\* list.reverse() works in place: it shows under every name bound to the list
originals_after(sorted) ==
    IF same_list THEN sorted.list ELSE original_circumferences

sort_circumferences ==
    LET sorted == sorted_circumferences(circumferences) IN
    /\ UNCHANGED measure_vars
    /\ op' = <<"sort_circumferences", None>>
    /\ circumferences' = sorted.list
    /\ original_circumferences' = originals_after(sorted)
    /\ printed' = sorted.reversed
    /\ ret' = IF sorted.exc = "" THEN Return(None) ELSE Raise(sorted.exc)
    /\ report' = None
    /\ UNCHANGED <<image_path, original_image, config_image, contour_boxes,
                   same_list, pixels_per_metric, circumferences_data, output_image>>

(* ---------------------------- polar profile --------------------------- *)

\* the exact square root (the traced points of the model lie on the axes
\* through the centroid, so every squared distance is a perfect square)
Sqrt(n) == CHOOSE r \in 0..n : r * r = n

\* backend.utils.rect_to_polar(point, center, inverted_y=True): the distance
\* from center and the angle, counted here in quarter turns (pi/2), of the
\* point seen with the y axis pointing up
rect_to_polar(point, center) ==
    LET dx == point[1] - center[1]
        dy == center[2] - point[2]
    IN  <<Sqrt(dx * dx + dy * dy),
          CASE dy = 0 /\ dx > 0 -> 0
            [] dx = 0 /\ dy > 0 -> 1
            [] dy = 0 /\ dx < 0 -> 2
            [] dx = 0 /\ dy < 0 -> -1>>

\* math.degrees of an angle in quarter turns, rounded to 2 decimals (hundredths)
degrees_rounded(theta) == 100 * 90 * theta

\* what numpy yields for x / 0: inf for x > 0, nan for x = 0
inf == 10 * 100000000

nan == -inf

\* num / den rounded to 2 decimals, in hundredths, ties to the even digit
round2(num, den) ==
    LET n == IF den < 0 THEN -(100 * num) ELSE 100 * num
        d == Abs(den)
        q == n \div d
        r == n % d
    IN  IF 2 * r < d THEN q
        ELSE IF 2 * r > d THEN q + 1
        ELSE IF q % 2 = 0 THEN q ELSE q + 1

\* x / scale rounded to 2 decimals where a zero scale does not raise
scaled(x, scale) ==
    IF scale # 0 THEN round2(x, scale) ELSE IF x = 0 THEN nan ELSE inf

\* (variant: the samples are taken at the vertices of the approximated
\* polygon, here the first traced point, not at every traced point)
profile_of_approx(circumference, scale) ==
    LET contour  == Shape(circumference[1])
        centroid == circumference[2]
        polar    == << rect_to_polar(contour.pts[1], centroid) >>
        temp_r     == [i \in 1..Len(polar) |-> scaled(polar[i][1], scale)]
        temp_theta == [i \in 1..Len(polar) |-> degrees_rounded(polar[i][2])]
        radii      == [i \in 1..Len(polar) |-> polar[i][1]]
    IN  <<temp_r, temp_theta, scaled(2 * SumSeq(radii), scale * Len(polar))>>

\* (variant: the scaled radii are averaged, not the diameters)
profile_of_radius(circumference, scale) ==
    LET contour  == Shape(circumference[1])
        centroid == circumference[2]
        polar    == [i \in 1..Len(contour.pts) |-> rect_to_polar(contour.pts[i], centroid)]
        temp_r     == [i \in 1..Len(polar) |-> scaled(polar[i][1], scale)]
        temp_theta == [i \in 1..Len(polar) |-> degrees_rounded(polar[i][2])]
        radii      == [i \in 1..Len(polar) |-> polar[i][1]]
    IN  <<temp_r, temp_theta, scaled(SumSeq(radii), scale * Len(polar))>>

\* the (rs, thetas, avg_diameter) tuple of one circumference
profile_of(circumference, scale) ==
    LET contour  == Shape(circumference[1])
        centroid == circumference[2]
        polar    == [i \in 1..Len(contour.pts) |-> rect_to_polar(contour.pts[i], centroid)]
        temp_r     == [i \in 1..Len(polar) |-> scaled(polar[i][1], scale)]
        temp_theta == [i \in 1..Len(polar) |-> degrees_rounded(polar[i][2])]
        radii      == [i \in 1..Len(polar) |-> polar[i][1]]
    IN  <<temp_r, temp_theta, scaled(2 * SumSeq(radii), scale * Len(polar))>>

\* (variant: an unset scale is taken to be one pixel per unit)
profiles_of_unchecked(list, float_r) ==
    IF list = <<>> THEN [exc |-> "", data |-> <<>>]
    ELSE IF pixels_per_metric # None /\ pixels_per_metric[1] = 0 /\ float_r
         THEN [exc |-> "ZeroDivisionError", data |-> <<>>]
    ELSE [exc |-> "",
          data |-> [i \in 1..Len(list) |->
                       profile_of(list[i], IF pixels_per_metric = None THEN 1
                                           ELSE pixels_per_metric[1])]]

\* The loop of circumferences_to_polar_and_avg_diameter over the sorted list:
\* the exception raised at the first division, or the profiles.  float_r
\* tells whether rect_to_polar returns r as a Python float, whose division
\* by zero raises, or as a numpy scalar, whose division by zero yields inf.
profiles_of(list, float_r) ==
    IF list = <<>> THEN [exc |-> "", data |-> <<>>]
    ELSE IF pixels_per_metric = None THEN [exc |-> "TypeError", data |-> <<>>]
    ELSE IF pixels_per_metric[1] = 0 /\ float_r
         THEN [exc |-> "ZeroDivisionError", data |-> <<>>]
    ELSE [exc |-> "",
          data |-> [i \in 1..Len(list) |-> profile_of(list[i], pixels_per_metric[1])]]

circumferences_to_polar_and_avg_diameter ==
    LET sorted == sorted_circumferences(circumferences) IN
    /\ UNCHANGED measure_vars
    /\ op' = <<"circumferences_to_polar_and_avg_diameter", None>>
    /\ circumferences' = sorted.list
    /\ original_circumferences' = originals_after(sorted)
    /\ printed' = sorted.reversed
    /\ report' = None
    /\ IF sorted.exc # ""
       THEN /\ ret' = Raise(sorted.exc)
            /\ UNCHANGED circumferences_data
       ELSE \E float_r \in BOOLEAN :
              LET profiles == profiles_of(sorted.list, float_r) IN
              /\ circumferences_data' = profiles.data
              /\ ret' = IF profiles.exc = "" THEN Return(profiles.data)
                        ELSE Raise(profiles.exc)
    /\ UNCHANGED <<image_path, original_image, config_image, contour_boxes,
                   same_list, pixels_per_metric, output_image>>

(* ------------------------- region of interest -------------------------- *)

get_slice_roi ==
    LET sorted == sorted_circumferences(circumferences) IN
    /\ UNCHANGED measure_vars
    /\ op' = <<"get_slice_roi", None>>
    /\ circumferences' = sorted.list
    /\ original_circumferences' = originals_after(sorted)
    /\ printed' = sorted.reversed
    /\ report' = None
    /\ IF sorted.exc # ""
       THEN /\ ret' = Raise(sorted.exc)
            /\ UNCHANGED output_image
       ELSE IF original_image = None
       THEN /\ ret' = Raise("AttributeError")     \* None has no copy()
            /\ UNCHANGED output_image
       ELSE LET outer == Shape(sorted.list[1][1])
                roi == Some([drawn |-> <<sorted.list[1][1], sorted.list[2][1]>>,
                             rect  |-> <<outer.x, outer.y, outer.w, outer.h>>])
            IN  /\ output_image' = roi
                /\ ret' = Return(roi)
    /\ UNCHANGED <<image_path, original_image, config_image, contour_boxes,
                   same_list, pixels_per_metric, circumferences_data>>

(* ------------------------------ the report ----------------------------- *)

\* the smallest first (i = 1) or the largest second (i = 2) coordinate of pts
Leftmost(pts)   == CHOOSE v \in {pts[j][1] : j \in 1..Len(pts)} :
                       \A j \in 1..Len(pts) : v <= pts[j][1]

Bottommost(pts) == CHOOSE v \in {pts[j][2] : j \in 1..Len(pts)} :
                       \A j \in 1..Len(pts) : v >= pts[j][2]

tags == <<"Outer Circumference", "Inner Circumference">>

RECURSIVE write_circumferences(_, _, _, _)
\* The loop of generate_text_file from its i-th round on: what it writes,
\* and the exception that stops it (dividing by None raises TypeError).
write_circumferences(i, x0, y0, written) ==
    IF i > Min(Min(Len(circumferences_data), Len(circumferences)), Len(tags))
    THEN [exc |-> "", written |-> written]
    ELSE LET profile  == circumferences_data[i]
             centroid == circumferences[i][2]
             polar    == [j \in 1..Min(Len(profile[1]), Len(profile[2])) |->
                             <<profile[1][j], profile[2][j]>>]
             started  == written \o << <<"tag", tags[i]>>, <<"polar", polar>> >>
         IN  IF pixels_per_metric = None
             THEN [exc |-> "TypeError", written |-> started]
             ELSE LET cx_final == scaled(Abs(centroid[1] - x0), pixels_per_metric[1])
                      cy_final == scaled(Abs(centroid[2] - y0), pixels_per_metric[1])
                  IN  write_circumferences(i + 1, x0, y0,
                          started \o << <<"centroid", <<cx_final, cy_final>> >>,
                                        <<"average diameter", profile[3]>> >>)

generate_text_file(writable) ==
    /\ UNCHANGED measure_vars
    /\ op' = <<"generate_text_file", writable>>
    /\ printed' = FALSE
    /\ IF circumferences = <<>>
       THEN /\ ret' = Raise("IndexError")
            /\ report' = None
       ELSE IF ~writable
       THEN /\ ret' = Return(Some(FALSE))          \* open raises IOError, caught
            /\ report' = None
       ELSE LET contour == Shape(circumferences[1][1])
                x0 == Leftmost(contour.pts)
                y0 == Bottommost(contour.pts)
                out == write_circumferences(1, x0, y0,
                           << <<"image", image_path>>, <<"timestamp", None>> >>)
            IN  /\ report' = Some(out.written)
                /\ ret' = IF out.exc = "" THEN Return(Some(TRUE)) ELSE Raise(out.exc)
    /\ UNCHANGED <<image_path, original_image, config_image, contour_boxes,
                   original_circumferences, circumferences, same_list,
                   pixels_per_metric, circumferences_data, output_image>>

(* --------------------------- the other calls --------------------------- *)

\* (variant: the calibration scale, the profiles and the output image survive)
reset_bsc_backend_partial ==
    /\ UNCHANGED measure_vars
    /\ op' = <<"reset_bsc_backend", None>>
    /\ image_path' = None
    /\ original_image' = None
    /\ config_image' = None
    /\ contour_boxes' = <<>>
    /\ original_circumferences' = <<>>
    /\ circumferences' = <<>>
    /\ ret' = Return(None)
    /\ printed' = FALSE
    /\ report' = None
    /\ UNCHANGED <<same_list, pixels_per_metric, circumferences_data, output_image>>

reset_bsc_backend ==
    /\ UNCHANGED measure_vars
    /\ op' = <<"reset_bsc_backend", None>>
    /\ image_path' = None
    /\ original_image' = None
    /\ config_image' = None
    /\ contour_boxes' = <<>>
    /\ original_circumferences' = <<>>
    /\ circumferences' = <<>>
    /\ pixels_per_metric' = None
    /\ circumferences_data' = <<>>
    /\ output_image' = None
    /\ ret' = Return(None)
    /\ printed' = FALSE
    /\ report' = None
    /\ UNCHANGED same_list         \* the lists are cleared in place

get_number_original_circumferences ==
    /\ UNCHANGED measure_vars
    /\ op' = <<"get_number_original_circumferences", None>>
    /\ ret' = Return(Some(Len(original_circumferences)))
    /\ printed' = FALSE
    /\ report' = None
    /\ UNCHANGED <<image_path, original_image, config_image, contour_boxes,
                   original_circumferences, circumferences, same_list,
                   pixels_per_metric, circumferences_data, output_image>>

render_all_circumferences ==
    /\ UNCHANGED measure_vars
    /\ op' = <<"render_all_circumferences", None>>
    /\ ret' = IF original_circumferences = <<>> THEN Return(<<>>)
              ELSE IF original_image = None THEN Raise("AttributeError")
              ELSE Return([i \in 1..Len(original_circumferences) |->
                             [image |-> original_image[1],
                              drawn |-> <<original_circumferences[i][1]>>]])
    /\ printed' = FALSE
    /\ report' = None
    /\ UNCHANGED <<image_path, original_image, config_image, contour_boxes,
                   original_circumferences, circumferences, same_list,
                   pixels_per_metric, circumferences_data, output_image>>

(* --------------------------- the measure screen ------------------------ *)

\* The screen after MeasureBPC.__init__ and the import of the thread module:
\* no event is set, the queue is empty, the buttons are created enabled.
\* do_update and busy_message_set do not exist before the first
\* on_show_frame, which assigns both before anything reads them.
MeasureBPC_init ==
    /\ capture_now = FALSE /\ capture_done = FALSE
    /\ calibrate_now = FALSE /\ calibration_done = FALSE
    /\ reading_sensors = FALSE /\ kill_thread = FALSE
    /\ no_arduino = FALSE /\ disconnected = FALSE
    /\ queue = <<>>
    /\ table_live = <<>>
    /\ count_number = 0
    /\ saved_measurement = 0
    /\ status_var = ""
    /\ buttons = "normal"
    /\ do_update = FALSE
    /\ busy_message_set = FALSE
    /\ pending = 0
    /\ live_thread = "none"
    /\ event = "__init__"

\* most readings waiting in the queue
MaxQueue == 2

\* most measurements captured in one run
MaxCount == 2

\* most timer callbacks registered at one time
MaxPending == 2

\* what the thread reads from the sensors (one value stands for the 13 of a reading)
Readings == {1, 2}

\* the screen and the shared events as one value
self ==
    [capture_now |-> capture_now, capture_done |-> capture_done,
     calibrate_now |-> calibrate_now, calibration_done |-> calibration_done,
     reading_sensors |-> reading_sensors, kill_thread |-> kill_thread,
     no_arduino |-> no_arduino, disconnected |-> disconnected, queue |-> queue,
     table_live |-> table_live, count_number |-> count_number,
     saved_measurement |-> saved_measurement, status_var |-> status_var,
     buttons |-> buttons, do_update |-> do_update,
     busy_message_set |-> busy_message_set, pending |-> pending,
     live_thread |-> live_thread]

\* the handler named ran and left the screen and the events as s
becomes(s, handler) ==
    /\ capture_now' = s.capture_now /\ capture_done' = s.capture_done
    /\ calibrate_now' = s.calibrate_now /\ calibration_done' = s.calibration_done
    /\ reading_sensors' = s.reading_sensors /\ kill_thread' = s.kill_thread
    /\ no_arduino' = s.no_arduino /\ disconnected' = s.disconnected
    /\ queue' = s.queue
    /\ table_live' = s.table_live
    /\ count_number' = s.count_number
    /\ saved_measurement' = s.saved_measurement
    /\ status_var' = s.status_var
    /\ buttons' = s.buttons
    /\ do_update' = s.do_update
    /\ busy_message_set' = s.busy_message_set
    /\ pending' = s.pending
    /\ live_thread' = s.live_thread
    /\ event' = handler
    /\ UNCHANGED bsc_vars

\* run_live_thread: a new thread is started on get_live_sensors
run_live_thread(s) == [s EXCEPT !.live_thread = "opening"]

\* on_leave_frame
left_frame(s) ==
    [s EXCEPT !.kill_thread = TRUE, !.reading_sensors = FALSE, !.do_update = FALSE]

\* the status message and the disabling of the buttons, done once per busy period
busy(s, message) ==
    IF s.busy_message_set THEN s
    ELSE [s EXCEPT !.status_var = message, !.buttons = "disabled",
                   !.busy_message_set = TRUE]

\* the order in which get_nowait hands out the readings of a LifoQueue
got_nowait(q) == Reverse(q)

\* The loop that empties the queue: every reading got replaces the live
\* column; the first one ends the busy period.
drained(s) ==
    IF s.queue = <<>> THEN s
    ELSE LET data == got_nowait(s.queue) IN
         [s EXCEPT !.queue = <<>>,
                   !.table_live = Some(data[Len(data)]),
                   !.status_var = IF s.busy_message_set THEN "Ready!" ELSE @,
                   !.buttons = IF s.busy_message_set THEN "normal" ELSE @,
                   !.busy_message_set = FALSE]

\* (variant: a served request is shown as busy but its flags are never cleared)
updated_keeps_flags(s) ==
    IF s.capture_now THEN busy(s, "Capturing data...")
    ELSE IF s.calibrate_now THEN busy(s, "Calibrating sensors...")
    ELSE IF s.reading_sensors THEN drained(s)
    ELSE IF s.do_update /\ ~s.busy_message_set THEN busy(s, "Connecting to sensors...")
    ELSE s

\* the branches of update_live_gui after the two alerts
updated(s) ==
    IF s.capture_now
    THEN LET b == busy(s, "Capturing data...") IN
         IF b.capture_done
         THEN [b EXCEPT !.capture_done = FALSE, !.capture_now = FALSE]
         ELSE b
    ELSE IF s.calibrate_now
    THEN LET b == busy(s, "Calibrating sensors...") IN
         IF b.calibration_done
         THEN [b EXCEPT !.calibration_done = FALSE, !.calibrate_now = FALSE]
         ELSE b
    ELSE IF s.reading_sensors THEN drained(s)
    ELSE IF s.do_update /\ ~s.busy_message_set THEN busy(s, "Connecting to sensors...")
    ELSE s

\* self.after(100, self.update_live_gui) while the frame is shown
rescheduled(s) == IF s.do_update THEN [s EXCEPT !.pending = @ + 1] ELSE s

\* One alert of update_live_gui: the event is cleared and the user asked;
\* retry starts a new thread, cancel shows the configuration frame, which
\* raises <<LeaveFrame>> on this one, and ends update_live_gui.
alert(s, flag, retry) ==
    IF ~s[flag] THEN [s |-> s, cancelled |-> FALSE]
    ELSE LET cleared == [s EXCEPT ![flag] = FALSE] IN
         IF retry THEN [s |-> run_live_thread(cleared), cancelled |-> FALSE]
         ELSE [s |-> left_frame(cleared), cancelled |-> TRUE]

\* update_live_gui run on s, with the answers the user gives to the alerts
update_live_gui(s, retry_no_arduino, retry_disconnected) ==
    LET first == alert(s, "no_arduino", retry_no_arduino) IN
    IF first.cancelled THEN first.s
    ELSE LET second == alert(first.s, "disconnected", retry_disconnected) IN
         IF second.cancelled THEN second.s
         ELSE rescheduled(updated(second.s))

\* <<ShowFrame>>: the controller raises the frame, which was not shown
on_show_frame ==
    /\ ~do_update
    /\ pending < MaxPending
    /\ \E retry_no_arduino \in BOOLEAN, retry_disconnected \in BOOLEAN :
          LET shown == [self EXCEPT !.count_number = saved_measurement,
                                    !.table_live = <<>>,
                                    !.do_update = TRUE,
                                    !.busy_message_set = FALSE]
              live == update_live_gui(shown, retry_no_arduino, retry_disconnected)
          IN  becomes(run_live_thread(live), "on_show_frame")

\* <<LeaveFrame>>: the controller raises another frame
on_leave_frame ==
    /\ do_update
    /\ becomes(left_frame(self), "on_leave_frame")

\* the timer runs one registered update_live_gui callback
after_update_live_gui ==
    /\ pending > 0
    /\ \E retry_no_arduino \in BOOLEAN, retry_disconnected \in BOOLEAN :
          becomes(update_live_gui([self EXCEPT !.pending = @ - 1],
                                  retry_no_arduino, retry_disconnected),
                  "update_live_gui")

\* (variant: every click requests a capture and counts)
captured_always(s) ==
    [s EXCEPT !.capture_now = TRUE, !.count_number = @ + 1]

\* the body of capture
captured(s) ==
    IF s.capture_now THEN s
    ELSE [s EXCEPT !.capture_now = TRUE, !.count_number = @ + 1]

\* a click on the capture button of the shown frame
capture ==
    /\ do_update /\ buttons = "normal"
    /\ count_number < MaxCount /\ saved_measurement < MaxCount
    /\ becomes(captured(self), "capture")

\* a click on the calibrate button of the shown frame
calibrate ==
    /\ do_update /\ buttons = "normal"
    /\ becomes([self EXCEPT !.calibrate_now = TRUE], "calibrate")

\* a click on the results button, enabled with the others once something
\* was captured: the controller raises the results frame
view_results ==
    /\ do_update /\ buttons = "normal" /\ count_number # 0
    /\ becomes(left_frame(self), "view_results")

\* reset, called by the controller when the application starts over
reset ==
    /\ becomes([self EXCEPT !.count_number = 0], "reset")

(* --------------------------- the sensor thread ------------------------- *)

\* get_live_sensors opens the serial port: it starts reading or reports
\* that no Arduino was found and ends
thread_opens_port ==
    /\ live_thread = "opening"
    /\ \E found \in BOOLEAN :
          becomes(IF found
                  THEN [self EXCEPT !.reading_sensors = TRUE, !.live_thread = "reading"]
                  ELSE [self EXCEPT !.no_arduino = TRUE, !.live_thread = "none"],
                  "get_live_sensors")

\* the thread hands a reading to the screen
add_to_queue(data) ==
    /\ live_thread = "reading" /\ reading_sensors
    /\ Len(queue) < MaxQueue
    /\ becomes([self EXCEPT !.queue = Append(@, data)], "add_to_queue")

\* the thread serves a capture request: the measurement is saved
thread_captures ==
    /\ live_thread = "reading"
    /\ capture_now /\ ~capture_done
    /\ saved_measurement < MaxCount
    /\ becomes([self EXCEPT !.saved_measurement = @ + 1, !.capture_done = TRUE],
               "get_live_sensors")

\* the thread serves a calibration request
thread_calibrates ==
    /\ live_thread = "reading"
    /\ calibrate_now /\ ~calibration_done
    /\ becomes([self EXCEPT !.calibration_done = TRUE], "get_live_sensors")

\* reading the port fails: the thread reports it and ends
thread_disconnects ==
    /\ live_thread = "reading"
    /\ becomes([self EXCEPT !.disconnected = TRUE, !.reading_sensors = FALSE,
                            !.live_thread = "none"],
               "get_live_sensors")

\* the thread sees kill_thread, closes the port and ends
thread_stops ==
    /\ live_thread # "none" /\ kill_thread
    /\ becomes([self EXCEPT !.kill_thread = FALSE, !.reading_sensors = FALSE,
                            !.live_thread = "none"],
               "get_live_sensors")

(* ----------------------------- the session ----------------------------- *)

Init ==
    /\ image_path = None
    /\ original_image = None
    /\ config_image = None
    /\ contour_boxes = <<>>
    /\ original_circumferences = <<>>
    /\ circumferences = <<>>
    /\ same_list = FALSE
    /\ pixels_per_metric = None
    /\ circumferences_data = <<>>
    /\ output_image = None
    /\ op = <<"import", None>>
    /\ ret = Return(None)
    /\ printed = FALSE
    /\ report = None
    /\ MeasureBPC_init

Next ==
    \/ \E p \in Paths : process_image(p)
    \/ \E selected \in Selections : set_final_circumferences(selected)
    \/ \E value \in Scales : set_pixels_per_metric(value)
    \/ sort_circumferences
    \/ circumferences_to_polar_and_avg_diameter
    \/ get_slice_roi
    \/ \E writable \in BOOLEAN : generate_text_file(writable)
    \/ reset_bsc_backend
    \/ get_number_original_circumferences
    \/ render_all_circumferences

Spec == Init /\ [][Next]_vars

\* The session of a caller that loads photographs of the test objects,
\* selects among the candidates found and looks at them.
NextShapes ==
    \/ \E p \in ProbePaths : process_image(p)
    \/ \E selected \in Selections : set_final_circumferences(selected)
    \/ reset_bsc_backend
    \/ get_number_original_circumferences
    \/ render_all_circumferences

SpecShapes == Init /\ [][NextShapes]_vars

\* the photographs of a caller that measures the two circles X and Y
ScalePaths == {[readable |-> TRUE, cnts |-> s] : s \in Windows(<<"X", "Y">>, MaxContours)}
                 \cup {[readable |-> FALSE, cnts |-> <<>>]}

\* the values such a caller passes to set_pixels_per_metric, which takes any
WideScales == {-5, 0, 3, 5}

\* The session of a caller that works on few photographs and calibrates
\* with whatever its measurement of the reference object gave.
NextScales ==
    \/ \E p \in ScalePaths : process_image(p)
    \/ \E selected \in Selections : set_final_circumferences(selected)
    \/ \E value \in WideScales : set_pixels_per_metric(value)
    \/ sort_circumferences
    \/ circumferences_to_polar_and_avg_diameter
    \/ get_slice_roi
    \/ \E writable \in BOOLEAN : generate_text_file(writable)
    \/ reset_bsc_backend
    \/ get_number_original_circumferences
    \/ render_all_circumferences

SpecScales == Init /\ [][NextScales]_vars

\* The measure screen in use: the user shows and leaves the frame and clicks
\* its buttons, the timer runs the callbacks, the sensor thread works.
NextMeasure ==
    \/ on_show_frame
    \/ on_leave_frame
    \/ after_update_live_gui
    \/ capture
    \/ calibrate
    \/ view_results
    \/ reset
    \/ thread_opens_port
    \/ \E data \in Readings : add_to_queue(data)
    \/ thread_captures
    \/ thread_calibrates
    \/ thread_disconnects
    \/ thread_stops

SpecMeasure == Init /\ [][NextMeasure]_vars

\* One stay on the measure screen with the schedulers at work: the user
\* shows the frame and clicks, and leaves it only by cancelling an alert; Tk
\* runs every registered callback, and a running sensor thread keeps reading
\* and serves the requests it finds.
NextBusy ==
    \/ on_show_frame
    \/ after_update_live_gui
    \/ capture
    \/ calibrate
    \/ thread_opens_port
    \/ add_to_queue(1)
    \/ thread_captures
    \/ thread_calibrates
    \/ thread_disconnects

SpecBusy ==
    /\ Init /\ [][NextBusy]_vars
    /\ WF_vars(after_update_live_gui)
    /\ WF_vars(add_to_queue(1))
    /\ WF_vars(thread_captures)
    /\ WF_vars(thread_calibrates)

(* ------------------------------ properties ----------------------------- *)

\* the function called last
called == op[1]

\* the argument it was called with
argument == op[2]

\* C1 as stated: in every reachable state every element of the active list
\* is an element of the original snapshot.
C1_FinalWithinOriginal ==
    Range(circumferences) \subseteq Range(original_circumferences)

\* C1 as amended: every element of the active list is an element of the
\* original snapshot, unless the snapshot is empty and the active list holds
\* at most two circumferences (the candidates of a load that found no more
\* than two, of which no snapshot is taken).
C1_FinalWithinOriginalOrSmallLoad ==
    \/ Range(circumferences) \subseteq Range(original_circumferences)
    \/ original_circumferences = <<>> /\ Len(circumferences) <= 2

\* a load that found two candidates: they are active, and no snapshot exists
C1_Witness ==
    /\ called = "process_image" /\ ret = Return(Some(2))
    /\ Len(circumferences) = 2
    /\ original_circumferences = <<>>

\* the k-th smallest element of a finite set of numbers
Nth(S, k) == CHOOSE j \in S : Cardinality({i \in S : i < j}) = k - 1

\* C2: right after set_final_circumferences(selected) the active list is the
\* sequence of the original-snapshot elements whose index is in selected, in
\* ascending index order, and nothing else.
C2_SetFinalProjects ==
    called = "set_final_circumferences" =>
        LET chosen == {i \in argument : i < Len(original_circumferences)}
        IN  /\ Len(circumferences) = Cardinality(chosen)
            /\ \A k \in 1..Len(circumferences) :
                   circumferences[k] = original_circumferences[Nth(chosen, k) + 1]

\* the first and the third of three originals were selected
C2_Witness ==
    /\ called = "set_final_circumferences" /\ argument = {0, 2}
    /\ Len(original_circumferences) = 3
    /\ circumferences = <<original_circumferences[1], original_circumferences[3]>>


\* C3: sort_circumferences is idempotent: applied right after an application
\* that returned, it leaves the active list in the order it found.
C3_SortIdempotent ==
    [][(called = "sort_circumferences" /\ ret.exc = ""
          /\ called' = "sort_circumferences")
       => circumferences' = circumferences]_vars

\* C4: on an active list that does not hold exactly two circumferences,
\* sort_circumferences raises or leaves the order of the list unchanged.
C4_SortOnlyPairs ==
    [][(called' = "sort_circumferences" /\ Len(circumferences) # 2)
       => (ret'.exc # "" \/ circumferences' = circumferences)]_vars

\* C5: generate_text_file returns True or False in every reachable state and
\* lets no exception propagate.
C5_ReportNeverRaises ==
    called = "generate_text_file" =>
        ret \in {Return(Some(TRUE)), Return(Some(FALSE))}

\* the error the code raises for an unset scale: the TypeError of r / None
CalibrationNotSet == "TypeError"

C7_ReportNeedsCalibration ==
    (called = "generate_text_file" /\ pixels_per_metric = None)
        => ~(ret = Return(Some(TRUE)) /\ report # None)

\* the candidates process_image registers for the contours cnts, in order
Candidates(cnts) ==
    LET accepted == SelectSeq(cnts, LAMBDA n : /\ Shape(n).area >= MinArea
                                                /\ is_circumference(Shape(n)))
    IN  [i \in 1..Len(accepted) |-> <<accepted[i], centroid_of(Shape(accepted[i]))>>]

\* C8: after a successful process_image that accepts n candidates the
\* original snapshot is the candidate list in discovery order when n > 2 and
\* is empty when n <= 2, and get_number_original_circumferences called next
\* returns n when n > 2 and 0 otherwise.
C8_SnapshotAboveTwo ==
    /\ []((called = "process_image" /\ ret.exc = "" /\ ret.value # None) =>
            LET candidates == Candidates(argument.cnts)
                n == Len(candidates)
            IN  /\ ret = Return(Some(n))
                /\ original_circumferences = IF n > 2 THEN candidates ELSE <<>>)
    /\ [][(called = "process_image" /\ ret.exc = "" /\ ret.value # None
              /\ called' = "get_number_original_circumferences")
          => LET n == ret.value[1]
             IN  ret' = Return(Some(IF n > 2 THEN n ELSE 0))]_vars

\* a load that found two candidates emptied the snapshot of an earlier load
\* that had found three (their profiles are still stored)
C8_Witness ==
    /\ called = "process_image" /\ ret = Return(Some(2))
    /\ original_circumferences = <<>>
    /\ Len(circumferences_data) = 3

\* C9: set_final_circumferences, sort_circumferences,
\* circumferences_to_polar_and_avg_diameter, get_slice_roi,
\* generate_text_file and set_pixels_per_metric leave the content and the
\* order of the original snapshot unchanged.
C9_OriginalImmutable ==
    [][called' \in {"set_final_circumferences", "sort_circumferences",
                    "circumferences_to_polar_and_avg_diameter", "get_slice_roi",
                    "generate_text_file", "set_pixels_per_metric"}
       => original_circumferences' = original_circumferences]_vars

\* the ordering reversed the active list of three and the snapshot kept
\* its discovery order
C9_Witness ==
    /\ called = "sort_circumferences" /\ printed
    /\ Len(original_circumferences) = 3
    /\ circumferences = Reverse(original_circumferences)
    /\ original_circumferences = Candidates(image_path[1].cnts)

\* C10: on an active list of exactly two, sort_circumferences,
\* circumferences_to_polar_and_avg_diameter and get_slice_roi swap the two
\* if and only if the second contour has strictly more points than the
\* first, so that afterwards the first has at least as many as the second.
C10_OuterFirst ==
    [][(called' \in {"sort_circumferences", "circumferences_to_polar_and_avg_diameter",
                     "get_slice_roi"}
          /\ Len(circumferences) = 2)
       => LET more == num_points(circumferences[2]) > num_points(circumferences[1])
          IN  /\ circumferences' = IF more THEN <<circumferences[2], circumferences[1]>>
                                   ELSE circumferences
              /\ printed' = more
              /\ num_points(circumferences'[1]) >= num_points(circumferences'[2])]_vars

\* get_slice_roi swapped a pair whose second contour had more points
C10_Witness ==
    /\ called = "get_slice_roi" /\ printed
    /\ Len(circumferences) = 2
    /\ num_points(circumferences[1]) > num_points(circumferences[2])

\* C11: after reset_bsc_backend the image path, the source image, the preview
\* image, the output image and the calibration scale are unset, and the box
\* list, the original snapshot, the active list and the profile list are empty.
C11_ResetClearsSession ==
    called = "reset_bsc_backend" =>
        /\ image_path = None
        /\ original_image = None
        /\ config_image = None
        /\ output_image = None
        /\ pixels_per_metric = None
        /\ contour_boxes = <<>>
        /\ original_circumferences = <<>>
        /\ circumferences = <<>>
        /\ circumferences_data = <<>>

\* a reset has run and returned, and the session holds nothing
C11_Witness ==
    /\ called = "reset_bsc_backend"
    /\ ret = Return(None)
    /\ image_path = None /\ pixels_per_metric = None
    /\ circumferences = <<>> /\ circumferences_data = <<>>

\* C12: process_image on a path that cannot be read returns None, the
\* 'no image' result, and raises nothing.
C12_UnreadableReturnsNone ==
    (called = "process_image" /\ cv2_imread(argument) = None) =>
        (ret.exc = "" /\ ret.value = None)

\* process_image has been called on an unreadable path and has returned None
C12_Witness ==
    /\ called = "process_image"
    /\ ~argument.readable
    /\ ret = Return(None)

\* the call made last was a process_image that read its image and finished
loaded_and_scanned == called = "process_image" /\ ret.exc = "" /\ ret.value # None

\* the contours of the image of the last process_image, in discovery order
discovered == cv2_findContours(cv2_imread(argument)[1])

at_least_10000(name) == Shape(name).area >= 10000

\* C13: after process_image the retained bounding boxes are exactly one per
\* discovered contour of area >= 10000, in discovery order, whether or not the
\* contour passes the shape classification; no contour of area below 10000
\* gives a box or a candidate, and there are never more candidates than boxes.
C13_BoxPerLargeContour ==
    loaded_and_scanned =>
        LET large == SelectSeq(discovered, at_least_10000) IN
        /\ contour_boxes = [i \in 1..Len(large) |-> Shape(large[i]).box]
        /\ \A i \in 1..Len(circumferences) : at_least_10000(circumferences[i][1])
        /\ Len(circumferences) <= Len(contour_boxes)

\* a photograph of a ten-vertex object, a circle and a speck: the first two
\* have a box, the circle alone is a candidate
C13_Witness ==
    /\ loaded_and_scanned
    /\ discovered = <<"K10", "K11", "Small">>
    /\ contour_boxes = <<Shape("K10").box, Shape("K11").box>>
    /\ Len(circumferences) = 1

\* the five criteria of a circular cross-section, as the claim states them
meets_all_criteria(name) ==
    LET c == Shape(name) IN
    /\ c.area >= 10000
    /\ 10 < c.k /\ c.k < 20
    /\ c.w > 25 /\ c.h > 25
    /\ c.hull_area > 0 /\ 10 * c.area > 9 * c.hull_area
    /\ 8 * c.h <= 10 * c.w /\ 10 * c.w <= 12 * c.h

\* C14: process_image registers a contour as a candidate if and only if its
\* area is >= 10000, its approximation has 10 < k < 20 vertices, its bounding
\* box has w > 25 and h > 25, its solidity is > 0.9 and 0.8 <= w/h <= 1.2; the
\* candidates are in discovery order, and a contour with k = 4 is never one.
C14_RegisteredIffAllCriteria ==
    loaded_and_scanned =>
        /\ [i \in 1..Len(circumferences) |-> circumferences[i][1]]
               = SelectSeq(discovered, meets_all_criteria)
        /\ \A i \in 1..Len(circumferences) : Shape(circumferences[i][1]).k # 4

\* a photograph of an object of aspect ratio 1.2, one just wider and a square:
\* the first alone is a candidate
C14_Witness ==
    /\ loaded_and_scanned
    /\ discovered = <<"R120", "R121", "Square">>
    /\ circumferences = << <<"R120", <<120, 100>> >> >>

\* the profiler was called last and returned its list of profiles
profiled == called = "circumferences_to_polar_and_avg_diameter" /\ ret.exc = ""

\* C15: when circumferences_to_polar_and_avg_diameter succeeds, the list it
\* returns has exactly one profile per active circumference, in the order of
\* the active list after ordering, and the radius and the angle sequence of
\* each profile have exactly one sample per raw contour point, in traced order.
C15_ProfilePerCircumference ==
    profiled =>
        /\ Len(ret.value) = Len(circumferences)
        /\ \A i \in 1..Len(circumferences) :
               LET pts == Shape(circumferences[i][1]).pts
                   centroid == circumferences[i][2]
                   rs == ret.value[i][1]
                   thetas == ret.value[i][2]
               IN  /\ Len(rs) = Len(pts)
                   /\ Len(thetas) = Len(pts)
                   /\ \A j \in 1..Len(pts) :
                          LET polar == rect_to_polar(pts[j], centroid) IN
                          /\ rs[j] = scaled(polar[1], pixels_per_metric[1])
                          /\ thetas[j] = degrees_rounded(polar[2])

\* the three circumferences X, Y, Z were profiled in the order Z, Y, X the
\* ordering step left them in; Y has three traced points, the others two
C15_Witness ==
    /\ profiled
    /\ [i \in 1..Len(circumferences) |-> circumferences[i][1]] = <<"Z", "Y", "X">>
    /\ Len(ret.value) = 3
    /\ Len(ret.value[2][1]) = 3 /\ Len(ret.value[3][2]) = 2

\* the distance in pixels between a traced point and the centroid
pixel_distance(point, centroid) ==
    Sqrt((point[1] - centroid[1]) * (point[1] - centroid[1])
         + (point[2] - centroid[2]) * (point[2] - centroid[2]))

\* C16: the average diameter of a profile is the mean, over all contour
\* points, of 2 x (pixel distance from the centroid divided by the calibration
\* scale), to the 2 decimals it is rounded to; for a contour whose points are
\* all 100 pixels from the centroid and a scale of 5.0 it is 40.0.
C16_AverageDiameter ==
    (profiled /\ pixels_per_metric[1] > 0) =>
        \A i \in 1..Len(circumferences) :
            LET pts == Shape(circumferences[i][1]).pts
                distances == [j \in 1..Len(pts) |-> pixel_distance(pts[j], circumferences[i][2])]
                scale == pixels_per_metric[1]
                avg == ret.value[i][3]      \* in hundredths
            IN  /\ 2 * Abs(avg * scale * Len(pts) - 100 * 2 * SumSeq(distances))
                       <= scale * Len(pts)
                /\ ((\A j \in 1..Len(pts) : distances[j] = 100) /\ scale = 5)
                       => avg = 4000

\* Y, whose traced points are all 100 pixels from its centroid, was profiled
\* at 5 pixels per unit: its average diameter is 40.0
C16_Witness ==
    /\ profiled
    /\ pixels_per_metric = Some(5)
    /\ \E i \in 1..Len(circumferences) :
           /\ circumferences[i][1] = "Y"
           /\ ret.value[i][3] = 4000

\* C17: in every reachable state the calibration scale is unset or a positive
\* scalar: set_pixels_per_metric never leaves a zero or negative scale stored,
\* so the profiler and the reporter never divide by a non-positive scale.
C17_ScalePositive ==
    pixels_per_metric = None \/ pixels_per_metric[1] > 0

\* C18: process_image never registers a candidate whose zeroth area moment is
\* zero: such a contour is filtered out before the centroid is computed or makes
\* process_image fail with an error, and every candidate has a defined centroid.
C18_NoZeroMomentCandidate ==
    (called = "process_image" /\ cv2_imread(argument) # None) =>
        /\ \A i \in 1..Len(circumferences) :
               LET c == Shape(circumferences[i][1]) IN
               /\ c.m00 # 0
               /\ circumferences[i][2] = <<c.m10 \div c.m00, c.m01 \div c.m00>>
        /\ \A i \in 1..Len(discovered) :
               Shape(discovered[i]).m00 = 0 =>
                   \/ ret.exc # ""
                   \/ \A j \in 1..Len(circumferences) : circumferences[j][1] # discovered[i]

\* a photograph of a thin arc without area next to a circle: the circle alone
\* is a candidate
C18_Witness ==
    /\ loaded_and_scanned
    /\ discovered = <<"Arc", "A10000", "K10">>
    /\ circumferences = << <<"A10000", <<55, 55>> >> >>

\* C19: a failed load leaves the session as it was: when process_image
\* returns None for an unreadable path, the image path, the source image, the
\* preview, the boxes, the snapshot, the active list, the calibration scale and
\* the profiles all keep the values they had before the call.
C19_FailedLoadKeepsSession ==
    [][(called' = "process_image" /\ cv2_imread(argument') = None) =>
          UNCHANGED <<image_path, original_image, config_image, contour_boxes,
                      original_circumferences, circumferences, pixels_per_metric,
                      circumferences_data>>]_vars

\* C20: whenever the stored profile list is non-empty, it has exactly one
\* entry per active circumference, and entry i is the profile of active
\* circumference i of the image loaded now (at some calibration scale), so the
\* report pairs every profile with the centroid of its own circumference.
C20_ProfilesMatchActive ==
    circumferences_data # <<>> =>
        /\ Len(circumferences_data) = Len(circumferences)
        /\ \A i \in 1..Len(circumferences) :
               \E value \in Scales \cup WideScales :
                   circumferences_data[i] = profile_of(circumferences[i], value)

\* C21: capture is 'only one at a time': a call while capture_now is set
\* changes neither the flag nor the captured count, a call while it is clear
\* sets it and adds exactly one to the count; the count grows by a click only
\* where capture_now becomes set, and only update_live_gui clears capture_now,
\* so between two clearings the count grows by at most one.
C21_CaptureOneAtATime ==
    [][/\ event' = "capture" =>
             IF capture_now
             THEN capture_now' /\ count_number' = count_number
             ELSE capture_now' /\ count_number' = count_number + 1
       /\ (count_number' > count_number /\ event' # "on_show_frame") =>
             (~capture_now /\ capture_now' /\ count_number' = count_number + 1)
       /\ (capture_now /\ ~capture_now') => event' \in {"update_live_gui", "on_show_frame"}
      ]_vars

\* a second capture was requested and counted after the first had been
\* served and cleared
C21_Witness ==
    /\ event = "capture"
    /\ capture_now /\ ~capture_done
    /\ count_number = 2 /\ saved_measurement = 1

\* C22: for any interleaving of on_show_frame, on_leave_frame and timer
\* ticks, at most one update_live_gui callback is pending at any time.
C22_OnePending ==
    pending <= 1

\* C23: when several readings were put into the queue between two ticks,
\* after update_live_gui has drained the queue the live column of the table
\* holds the reading that was put last.
C23_LiveIsMostRecent ==
    [][(event' = "update_live_gui" /\ Len(queue) >= 2 /\ queue' = <<>>) =>
          table_live' = Some(queue[Len(queue)])]_vars

\* the buttons are disabled for a request that a tick has seen
busy_with_request == busy_message_set /\ (capture_now \/ calibrate_now)

\* the busy period is over
ready == ~busy_message_set /\ buttons = "normal" /\ status_var = "Ready!"

\* the buttons are never enabled while a request seen by a tick is set, and
\* they become enabled only when no request is set
C24_ButtonsStayDisabled ==
    /\ [](busy_with_request => buttons = "disabled")
    /\ [][(buttons = "disabled" /\ buttons' = "normal") =>
             (~capture_now' /\ ~calibrate_now')]_vars

\* provided reading_sensors stays set, the thread keeps reading and the frame
\* stays shown, a busy period for a request ends with the status 'Ready!' and
\* the buttons enabled
C24_EventuallyReady ==
    busy_with_request ~>
        (ready \/ ~reading_sensors \/ live_thread # "reading" \/ ~do_update)

\* C24: every busy period of the measure screen ends: once the thread has
\* set the done flag of the request the buttons were disabled for, the next
\* tick clears the done flag and the request flag; provided reading_sensors
\* stays set and readings keep coming while the frame is shown, a later tick
\* sets the status to 'Ready!', enables the buttons and clears
\* busy_message_set; the buttons are never enabled while a request is set and
\* has been seen by a tick.
C24_BusyPeriodEnds ==
    /\ [][(event' = "update_live_gui" /\ busy_message_set) =>
             /\ (capture_now /\ capture_done) => (~capture_now' /\ ~capture_done')
             /\ (~capture_now /\ calibrate_now /\ calibration_done) =>
                    (~calibrate_now' /\ ~calibration_done')]_vars
    /\ C24_EventuallyReady
    /\ C24_ButtonsStayDisabled

\* C24 as it holds: the next tick clears the two flags if it has no alert of
\* the sensor thread to show; one that shows an alert which the user cancels
\* ends before it looks at the flags.
C24_BusyPeriodEndsUnlessAlert ==
    /\ [][(event' = "update_live_gui" /\ busy_message_set
             /\ ~no_arduino /\ ~disconnected) =>
             /\ (capture_now /\ capture_done) => (~capture_now' /\ ~capture_done')
             /\ (~capture_now /\ calibrate_now /\ calibration_done) =>
                    (~calibrate_now' /\ ~calibration_done')]_vars
    /\ C24_EventuallyReady
    /\ C24_ButtonsStayDisabled

\* a capture was requested, seen, served and cleared, and a reading then
\* ended the busy period
C24_Witness ==
    /\ event = "update_live_gui"
    /\ ready
    /\ saved_measurement = 1 /\ count_number = 1
    /\ ~capture_now /\ ~capture_done
    /\ reading_sensors /\ do_update

====
